---- MODULE Spec2Model ----
(***************************************************************************)
(* api/main.py: a FastAPI application with two GET handlers, getViews and  *)
(* stats, each of which makes one blocking requests.get call to an         *)
(* upstream service inside a try / except Exception block.                 *)
(*                                                                         *)
(* The upstream services and the network are the environment: the result   *)
(* of one requests.get call is drawn from the set Outcomes.  JSON values   *)
(* are tagged records [t, v]; the operators GetItem and Add give Python's  *)
(* subscription and + on them, exceptions included.                        *)
(***************************************************************************)
EXTENDS Integers, FiniteSets, Sequences, TLC

\* ---------------------------------------------------------------- bounds
NumReqs == 2          \* inbound requests the process receives
MaxCount == 0         \* the upstream counter values tried are 0..MaxCount, -2 and 1022

Reqs == 1..NumReqs

\* ------------------------------------------------------------ JSON values
JInt(n) == [t |-> "int", v |-> n]
JFloat(tenths) == [t |-> "float", v |-> tenths]     \* the number tenths / 10
JStr(s) == [t |-> "str", v |-> s]
JNull == [t |-> "null", v |-> 0]
JObj(f) == [t |-> "obj", v |-> f]

\* ------------------------------------------------- Python expression results
Ok(x) == [exc |-> "", val |-> x]
Raise(e) == [exc |-> e, val |-> JNull]

\* x[k] for a string key k: a dict looks the key up, anything else refuses
GetItem(x, k) ==
  IF x.t = "obj"
    THEN IF k \in DOMAIN x.v THEN Ok(x.v[k]) ELSE Raise("KeyError")
    ELSE Raise("TypeError")

\* the mutant of Add: the increment is forgotten
AddNothing(x, k) ==
  IF x.t \in {"int", "float"} THEN Ok(x) ELSE Raise("TypeError")

\* x + k for an int k: an int (unbounded) and a float add, str and None refuse
Add(x, k) ==
  IF x.t = "int" THEN Ok(JInt(x.v + k))
  ELSE IF x.t = "float" THEN Ok(JFloat(x.v + 10 * k))
  ELSE Raise("TypeError")

\* ------------------------------------------------------ module-level state
None == "<None>"
ValidToken == "secret"
Origins == {"https://a.example", "https://b.example"}

\* str() as the f-string applies it
Str(x) == IF x = None THEN "None" ELSE x

\* the mutant of BearerHeader: a missing key falls back to a built-in one
BearerHeaderFallback(key) ==
  [Authorization |-> "Bearer " \o (IF key = None THEN ValidToken ELSE key)]

\* headers = {"Authorization": f"Bearer {API_KEY}"}
BearerHeader(key) == [Authorization |-> "Bearer " \o Str(key)]

COUNTER_URL == "https://api.counterapi.dev/v2/muzamil-sulemans-team-1761/portfolio-views-1023"
CounterUp == COUNTER_URL \o "/up"
StatsUrl == "https://alfa-leetcode-api.onrender.com/KYFmk4en0i/solved"
Urls == {CounterUp, StatsUrl}
Endpoints == {"/get_views", "/get_leetcode_stats"}

\* the mutant of TargetUrl: stats calls the URL getViews calls
TargetUrlCopied(ep) == CounterUp

\* the URL each handler passes to requests.get
TargetUrl(ep) == IF ep = "/get_views" THEN CounterUp ELSE StatsUrl

\* ------------------------------------------------ what requests.get can do
UpCounts == (0..MaxCount) \cup {-2, 1022}
CounterBody(u) == JObj([data |-> JObj([up_count |-> u])])
JsonBodies ==
  {CounterBody(JInt(n)) : n \in UpCounts}
    \cup {CounterBody(JFloat(15)), CounterBody(JStr("7")), CounterBody(JNull)}
    \cup {JObj([message |-> JStr("error")]), JObj([solvedProblem |-> JInt(3)]),
          JObj([data |-> JObj([id |-> JInt(1)])]), JObj([data |-> JNull])}

\* a response body as sent: text that is JSON for some value, or is not JSON
NotJson == [json |-> FALSE, value |-> JNull]
Texts == {[json |-> TRUE, value |-> b] : b \in JsonBodies} \cup {NotJson}
Statuses == {200, 500}

\* one call of requests.get: it raises, it returns a Response, or (no timeout
\* is passed) it never returns; delivered: the request reached the upstream
Raises == {[kind |-> "raise", status |-> 0, body |-> NotJson, delivered |-> d] : d \in BOOLEAN}
Hangs == {[kind |-> "hang", status |-> 0, body |-> NotJson, delivered |-> d] : d \in BOOLEAN}
Answers == {[kind |-> "resp", status |-> s, body |-> b, delivered |-> TRUE] : s \in Statuses, b \in Texts}
NoOutcome == [kind |-> "none", status |-> 0, body |-> NotJson, delivered |-> FALSE]

\* the body gives a counter value at data.up_count
CarriesCount(b) ==
  /\ b.json
  /\ GetItem(b.value, "data").exc = ""
  /\ GetItem(GetItem(b.value, "data").val, "up_count").exc = ""

\* an upstream refusing a call: a 401 that gives no counter value
Rejections ==
  {[kind |-> "resp", status |-> 401, body |-> b, delivered |-> TRUE] :
     b \in {x \in Texts : ~CarriesCount(x)}}
Responses == Answers \cup Rejections
Outcomes == Raises \cup Hangs \cup Responses

ValidAuth(h) == h.Authorization = "Bearer " \o ValidToken

\* resp.json(): the parsed value, or JSONDecodeError; the status is not read
json(resp) == IF resp.body.json THEN Ok(resp.body.value) ELSE Raise("JSONDecodeError")

\* ---------------------------------------------------------------- handlers
Returned(d, p) == [exc |-> "", ret |-> d, printed |-> p]
Raised(e) == [exc |-> e, ret |-> [none |-> JNull], printed |-> JNull]

\* the try block of getViews
getViewsTry(o) ==
  IF o.kind # "resp" THEN Raised("ConnectionError")
  ELSE LET data == json(o) IN
    IF data.exc # "" THEN Raised(data.exc)
    ELSE LET d == GetItem(data.val, "data") IN
      IF d.exc # "" THEN Raised(d.exc)
      ELSE LET u == GetItem(d.val, "up_count") IN
        IF u.exc # "" THEN Raised(u.exc)
        ELSE LET c == Add(u.val, 1) IN
          IF c.exc # "" THEN Raised(c.exc)
          ELSE Returned([count |-> c.val], d.val)

\* getViews: the try block, and except Exception around it
getViews(o) ==
  LET b == getViewsTry(o) IN
    IF b.exc # "" THEN Returned([count |-> JInt(-1)], JStr(b.exc)) ELSE b

\* the mutant of statsTry: the body is checked for the field the page shows
statsTryValidated(o) ==
  IF o.kind # "resp" THEN Raised("ConnectionError")
  ELSE LET data == json(o) IN
    IF data.exc # "" THEN Raised(data.exc)
    ELSE IF GetItem(data.val, "totalSolved").exc # "" THEN Raised("KeyError")
    ELSE Returned([data |-> data.val], JNull)

\* the try block of stats
statsTry(o) ==
  IF o.kind # "resp" THEN Raised("ConnectionError")
  ELSE LET data == json(o) IN
    IF data.exc # "" THEN Raised(data.exc)
    ELSE Returned([data |-> data.val], JNull)

\* stats: the try block, and except Exception around it
stats(o) ==
  LET b == statsTry(o) IN
    IF b.exc # ""
      THEN Returned([data |-> JObj([totalSolved |-> JStr("undefined")])], JStr(b.exc))
      ELSE b

\* the route table built by the two @app.get decorators
Route(ep, o) == IF ep = "/get_views" THEN getViews(o) ELSE stats(o)

\* the CORS headers the application adds for a request from origin orig
CorsHeaders(mw, orig) ==
  IF \E i \in DOMAIN mw : mw[i] = "CORSMiddleware"
    THEN {<<"access-control-allow-origin", orig>>,
          <<"access-control-allow-credentials", "true">>}
    ELSE {}

\* the HTTP response made of a handler's result
HttpResponse(h, mw, orig) ==
  IF h.exc = ""
    THEN [status |-> 200, body |-> h.ret, cors |-> CorsHeaders(mw, orig)]
    ELSE [status |-> 500, body |-> [detail |-> JStr("Internal Server Error")],
          cors |-> CorsHeaders(mw, orig)]
NoResponse == [status |-> 0, body |-> [none |-> JNull], cors |-> {}]

\* the mutant of AfterCall: a timeout turns a silent upstream into an exception
AfterCallTimeout(o) == "returned"

\* where the handler stands once the upstream has decided: requests.get is
\* called with no timeout, so it returns (or raises) only if the upstream acts
AfterCall(o) == IF o.kind = "hang" THEN "hung" ELSE "returned"

\* ------------------------------------------------------------------- state
VARIABLES
  API_KEY,          \* os.getenv("API_KEY"), None when the variable is absent
  headers,          \* the module-level headers dict
  user_middleware,  \* the middleware added to app
  rejectsUnauth,    \* environment: the counter service refuses bad credentials
  loop,             \* the request whose handler holds the event loop, 0 if none
  pc,               \* each request's position
  endpoint,         \* each request's path
  origin,           \* each request's Origin header
  outcome,          \* what each request's requests.get call did
  response,         \* the HTTP response made for each request
  printed,          \* what each request's handler printed
  issued,           \* outbound GETs sent, by URL
  received          \* outbound GETs that reached their upstream, by URL

vars == <<API_KEY, headers, user_middleware, rejectsUnauth, loop, pc, endpoint,
          origin, outcome, response, printed, issued, received>>

Init ==
  /\ API_KEY \in {None, ValidToken}
  /\ headers = BearerHeader(API_KEY)
  /\ user_middleware = <<>>
  /\ rejectsUnauth \in BOOLEAN
  /\ loop = 0
  /\ pc = [r \in Reqs |-> "none"]
  /\ endpoint = [r \in Reqs |-> ""]
  /\ origin = [r \in Reqs |-> ""]
  /\ outcome = [r \in Reqs |-> NoOutcome]
  /\ response = [r \in Reqs |-> NoResponse]
  /\ printed = [r \in Reqs |-> JNull]
  /\ issued = [u \in Urls |-> 0]
  /\ received = [u \in Urls |-> 0]

\* what the upstream and the network can do with request r's call
Allowed(r) ==
  IF endpoint[r] = "/get_views" /\ rejectsUnauth /\ ~ValidAuth(headers)
    THEN Raises \cup Hangs \cup Rejections
    ELSE Outcomes

\* a client sends a GET for one of the two paths
Arrive(r) ==
  /\ pc[r] = "none"
  /\ \E ep \in Endpoints, o \in Origins :
       /\ endpoint' = [endpoint EXCEPT ![r] = ep]
       /\ origin' = [origin EXCEPT ![r] = o]
  /\ pc' = [pc EXCEPT ![r] = "pending"]
  /\ UNCHANGED <<API_KEY, headers, user_middleware, rejectsUnauth, loop, outcome,
                 response, printed, issued, received>>

\* the event loop runs r's handler, an async def that never awaits: it enters
\* the try block and calls requests.get, which blocks the loop's thread
Dispatch(r) ==
  /\ pc[r] = "pending"
  /\ loop = 0
  /\ loop' = r
  /\ pc' = [pc EXCEPT ![r] = "calling"]
  /\ issued' = [issued EXCEPT ![TargetUrl(endpoint[r])] = @ + 1]
  /\ UNCHANGED <<API_KEY, headers, user_middleware, rejectsUnauth, endpoint, origin,
                 outcome, response, printed, received>>

\* the network and the upstream decide what r's requests.get call does
Upstream(r) ==
  /\ pc[r] = "calling"
  /\ \E o \in Allowed(r) :
       /\ outcome' = [outcome EXCEPT ![r] = o]
       /\ pc' = [pc EXCEPT ![r] = AfterCall(o)]
       /\ received' = [received EXCEPT ![TargetUrl(endpoint[r])] =
                         IF o.delivered THEN @ + 1 ELSE @]
  /\ UNCHANGED <<API_KEY, headers, user_middleware, rejectsUnauth, loop, endpoint,
                 origin, response, printed, issued>>

\* requests.get has returned or raised: the rest of the handler runs and the
\* application makes the response of what it returns
Complete(r) ==
  /\ pc[r] = "returned"
  /\ LET h == Route(endpoint[r], outcome[r]) IN
       /\ response' = [response EXCEPT ![r] = HttpResponse(h, user_middleware, origin[r])]
       /\ printed' = [printed EXCEPT ![r] = h.printed]
  /\ pc' = [pc EXCEPT ![r] = "done"]
  /\ UNCHANGED <<API_KEY, headers, user_middleware, rejectsUnauth, loop, endpoint,
                 origin, outcome, issued, received>>

\* the response is written to the client, the request's values are discarded
\* and the event loop is free for the next request
Send(r) ==
  /\ pc[r] = "done"
  /\ pc' = [pc EXCEPT ![r] = "sent"]
  /\ loop' = 0
  /\ origin' = [origin EXCEPT ![r] = ""]
  /\ outcome' = [outcome EXCEPT ![r] = NoOutcome]
  /\ response' = [response EXCEPT ![r] = NoResponse]
  /\ printed' = [printed EXCEPT ![r] = JNull]
  /\ UNCHANGED <<API_KEY, headers, user_middleware, rejectsUnauth, endpoint, issued,
                 received>>

Next ==
  \E r \in Reqs :
    \/ Arrive(r)
    \/ Dispatch(r)
    \/ Upstream(r)
    \/ Complete(r)
    \/ Send(r)

Spec == Init /\ [][Next]_vars

\* The specification for termination.  Python runs the statements after
\* requests.get as soon as it returns, hence the fairness of Complete.  Whether
\* a call hangs or returns does not depend on the credential, so the key is
\* set and the counter service takes any call.
FairInit == Init /\ API_KEY = ValidToken /\ ~rejectsUnauth
FairSpec == FairInit /\ [][Next]_vars /\ \A r \in Reqs : WF_vars(Complete(r))

\* ------------------------------------------------------------------ claims
Done(r, ep) == pc[r] = "done" /\ endpoint[r] = ep
Sentinel == [count |-> JInt(-1)]
StatsSentinel == [data |-> JObj([totalSolved |-> JStr("undefined")])]
Success(o) == o.kind = "resp" /\ o.status \in 200..299 /\ o.body.json

\* C1: when the counter call succeeds with a JSON body whose data.up_count is
\* the integer n, getViews returns exactly {"count": n + 1}
C1_ViewsReturnsCountPlusOne ==
  \A r \in Reqs : \A n \in UpCounts :
    (/\ Done(r, "/get_views")
     /\ Success(outcome[r])
     /\ outcome[r].body.value = CounterBody(JInt(n)))
    => response[r].status = 200 /\ response[r].body = [count |-> JInt(n + 1)]

\* C1's case: the upstream answered up_count 1022 and the handler returned 1023
C1_Witness ==
  \E r \in Reqs :
    /\ Done(r, "/get_views")
    /\ Success(outcome[r])
    /\ outcome[r].body.value = CounterBody(JInt(1022))
    /\ response[r].body = [count |-> JInt(1023)]

\* C2: on any failure of the counter service (an exception, a 500 status, a
\* body that is not JSON or lacks data or data.up_count) /get_views answers
\* 200 {"count": -1}
C2_AnyCounterFailureGivesSentinel ==
  \A r \in Reqs :
    (/\ Done(r, "/get_views")
     /\ \/ outcome[r].kind = "raise"
        \/ outcome[r].status = 500
        \/ ~outcome[r].body.json
        \/ ~CarriesCount(outcome[r].body))
    => response[r].status = 200 /\ response[r].body = Sentinel

\* C3: on any failure of the stats service (an exception, a non-2xx status, a
\* body that is not JSON) /get_leetcode_stats answers
\* 200 {"data": {"totalSolved": "undefined"}}, never the upstream's error body
C3_AnyStatsFailureGivesSentinel ==
  \A r \in Reqs :
    (/\ Done(r, "/get_leetcode_stats")
     /\ \/ outcome[r].kind = "raise"
        \/ outcome[r].status \notin 200..299
        \/ ~outcome[r].body.json)
    => response[r].status = 200 /\ response[r].body = StatsSentinel

\* C4: when the stats call succeeds with parsed body b, /get_leetcode_stats
\* returns exactly {"data": b}
C4_StatsPassesBodyThrough ==
  \A r \in Reqs :
    (Done(r, "/get_leetcode_stats") /\ Success(outcome[r]))
    => /\ response[r].status = 200
       /\ response[r].body = [data |-> outcome[r].body.value]

\* C4's case: a stats body went through although it has no totalSolved field
C4_Witness ==
  \E r \in Reqs :
    /\ Done(r, "/get_leetcode_stats")
    /\ Success(outcome[r])
    /\ outcome[r].body.value = JObj([solvedProblem |-> JInt(3)])
    /\ response[r].body = [data |-> JObj([solvedProblem |-> JInt(3)])]

\* C5: the permissive CORS policy applies to both handlers: every response to
\* a request from another origin carries the approval of that origin
C5_EveryOriginAllowed ==
  \A r \in Reqs :
    pc[r] = "done" =>
      \E h \in response[r].cors :
        h[1] = "access-control-allow-origin" /\ h[2] \in {"*", origin[r]}

\* C6: every response of /get_views has a field count that is an integer, and
\* every response of /get_leetcode_stats has a field data
C6_CountIsIntegerDataIsPresent ==
  \A r \in Reqs :
    /\ Done(r, "/get_views") =>
         /\ "count" \in DOMAIN response[r].body
         /\ response[r].body.count.t = "int"
    /\ Done(r, "/get_leetcode_stats") => "data" \in DOMAIN response[r].body

\* C7: with API_KEY absent the counter call carries no valid credential, and
\* against a counter service that refuses such calls /get_views answers
\* {"count": -1}
C7_MissingKeyGivesSentinel ==
  (API_KEY = None /\ rejectsUnauth) =>
    /\ ~ValidAuth(headers)
    /\ \A r \in Reqs :
         Done(r, "/get_views") =>
           response[r].status = 200 /\ response[r].body = Sentinel

\* C7's case: the key is absent, the counter service refused the call with a
\* 401, and the handler answered the sentinel
C7_Witness ==
  /\ API_KEY = None
  /\ rejectsUnauth
  /\ headers.Authorization = "Bearer None"
  /\ \E r \in Reqs :
       /\ Done(r, "/get_views")
       /\ outcome[r] \in Rejections
       /\ response[r].body = Sentinel

\* C8: while one request waits on its upstream, any other request that has
\* arrived can be started by the process
C8_WaitingBlocksOnlyItsRequest ==
  \A r1, r2 \in Reqs :
    (pc[r1] \in {"calling", "hung"} /\ pc[r2] = "pending") => ENABLED Dispatch(r2)

Started(ep) ==
  {r \in Reqs : endpoint[r] = ep /\ pc[r] \in {"calling", "hung", "returned", "done", "sent"}}

\* C9 (as amended): every invocation of /get_views has issued exactly one GET
\* to COUNTER_URL/up and every invocation of /get_leetcode_stats exactly one
\* GET to the stats URL and none to the counter; the upstream has received at
\* most the calls issued
C9_OneCallPerInvocation ==
  /\ issued[CounterUp] = Cardinality(Started("/get_views"))
  /\ issued[StatsUrl] = Cardinality(Started("/get_leetcode_stats"))
  /\ \A u \in Urls : received[u] <= issued[u]

\* C9's case: one invocation of each handler has finished, the one of
\* /get_views on a failure path whose call never reached the counter
C9_Witness ==
  /\ loop = 0
  /\ \E r1, r2 \in Reqs :
       /\ pc[r1] = "sent" /\ endpoint[r1] = "/get_views"
       /\ pc[r2] = "sent" /\ endpoint[r2] = "/get_leetcode_stats"
  /\ issued[CounterUp] = 1
  /\ received[CounterUp] = 0

\* C9 as stated: once k invocations of /get_views have finished, the counter
\* service has received exactly k requests
C9_CounterReceivedEveryCall ==
  loop = 0 => received[CounterUp] = Cardinality(Started("/get_views"))

\* C10: a handler whose upstream never responds stays blocked and produces no
\* response, not even the sentinel; a handler whose upstream call has returned
\* or raised goes on to produce a response
C10_HangsForeverElseResponds ==
  /\ [](\A r \in Reqs :
          outcome[r].kind = "hang" => pc[r] = "hung" /\ response[r] = NoResponse)
  /\ [][\A r \in Reqs : pc[r] = "hung" => pc'[r] = "hung"]_vars
  /\ \A r \in Reqs :
       (pc[r] = "returned") ~> (pc[r] = "done" /\ response[r] # NoResponse)

\* C10's case: one request was answered and another is blocked for good on an
\* upstream that never responds
C10_Witness ==
  \E r1, r2 \in Reqs :
    /\ pc[r1] = "sent"
    /\ pc[r2] = "hung" /\ outcome[r2].kind = "hang" /\ response[r2] = NoResponse

====
